---- MODULE Spec2Model ----
(***************************************************************************)
(* State-machine model of defend.js: Proxy-based runtime enforcement of a  *)
(* fixed property set and fixed property types on instances of classes     *)
(* derived from DefendedBase, with New / Release / WasReleased / SetMode   *)
(* and the deferred CheckDefendedObjectsUsedCorrectly timer callback.      *)
(*                                                                         *)
(* Identities.  A raw instance is a positive integer, the Proxy created    *)
(* around raw instance i has the identity -i.  A reference held by user    *)
(* code is therefore a non-zero integer: negative for a wrapper, positive  *)
(* for a raw (unwrapped) instance.                                         *)
(***************************************************************************)
EXTENDS Integers, Sequences, FiniteSets, TLC

\* ------------------------------------------------------------------ bounds
\* Number of instances alive at one time; constructor calls nest as deep.
MaxObjs == 2

\* --------------------------------------------------------------- constants
VALID_MODES == {"defend", "seal", "off"}
\* SetMode inputs: the valid modes and one invalid string.
ModeInputs == VALID_MODES \cup {"bogus"}

VALID_GET_MISSING_KEYS == {"then", "splice"}

\* Classes of the example program, both derived from DefendedBase.
Classes == {"Test", "InconsistentProperties"}
\* Property names a class defines on its prototype (methods; not enumerable).
PrototypeKeys(cls) == IF cls = "Test" THEN {"GetString"} ELSE {}

\* A key of symbol type (typeof key === "symbol"); all other keys are strings.
SymKey == "@@sym"
DataKeys == {"_a", "_b"}
Keys == DataKeys \cup {"GetString", "then", SymKey}

\* Call sites of Release(), standing for the text GetCallStack() returns there.
Sites == {"site1", "site2"}

\* --------------------------------------------------------------- JS values
\* A value is [kind, v]: kind is what the value is at run time, v tells two
\* values of the same kind apart.
Kinds == {"null", "undefined", "boolean", "number", "string", "array",
          "object", "function", "symbol"}
Val(k, n) == [kind |-> k, v |-> n]
Null == Val("null", 0)
Undefined == Val("undefined", 0)
Num1 == Val("number", 1)
Num2 == Val("number", 2)
Str == Val("string", 0)
Sym == Val("symbol", 0)
Fn == Val("function", 0)
JSTrue == Val("boolean", 1)
JSFalse == Val("boolean", 0)
Bool(b) == IF b THEN JSTrue ELSE JSFalse
\* Values user code writes in the model.
Values == {Null, Undefined, Num1, Num2, Str, Sym}

\* ----------------------------------------------------------------- workloads
\* The user program is one of two workloads, fixed at the start of a run.
\*   "access":    one instance alive at a time, read, written, deleted from,
\*                defined on and released with every key and with a value for
\*                every behaviour of the handler.  The program may drop the
\*                instance and construct another.
\*   "lifecycle": up to MaxObjs instances alive at a time, nested and failing
\*                constructions, with one key and one value.  Only the running
\*                constructor accesses an instance (its `this`); the program
\*                keeps no reference to an instance once its construction is
\*                over, so the instance is collected.
Workloads == {"access", "lifecycle"}
\* The (key, value) pairs user code assigns.
Writes(w) ==
  IF w = "access"
    THEN ({"_a"} \X {Null, Undefined, Num1, Num2, Sym})
         \cup {<<"_b", Num1>>, <<"GetString", Null>>, <<SymKey, Num1>>,
               <<SymKey, Undefined>>}
    ELSE {<<"_a", Num1>>}
\* The keys user code reads, deletes and defines.
AccessKeys(w) == IF w = "access" THEN Keys ELSE {"_a"}
\* The call sites of Release.
ReleaseSites(w) == IF w = "access" THEN Sites ELSE {"site1"}
\* The constructions the workload makes: <<class, TRUE>> is New(class),
\* <<class, FALSE>> is new class().
Constructions(w) ==
  IF w = "access" THEN {"Test"} \X BOOLEAN
  ELSE ({"Test"} \X BOOLEAN) \cup {<<"InconsistentProperties", FALSE>>}
\* How many instances the workload keeps alive at a time.
InstanceLimit(w) == IF w = "access" THEN 1 ELSE MaxObjs
\* One representative value of every kind.
AllValues == {Val(k, 0) : k \in Kinds}

\* The typeof operator.
TypeOf(o) == IF o.kind \in {"null", "array", "object"} THEN "object" ELSE o.kind

\* Array.isArray
IsArray(o) == o.kind = "array"

\* A variant of getType that is the typeof operator alone.
getType_typeof(o) == TypeOf(o)
getType(o) ==
  IF o = Null THEN "null"
  ELSE IF IsArray(o) THEN "array"
  ELSE TypeOf(o)

\* A variant that lets every change between two defined, non-null types pass.
isValidTypeChange_lax(from, to) ==
  LET fromType == getType(from)
      toType == getType(to)
  IN IF fromType = "null" \/ toType = "null" THEN TRUE
     ELSE IF fromType = "undefined" \/ toType = "undefined" THEN FALSE
     ELSE TRUE
isValidTypeChange(from, to) ==
  LET fromType == getType(from)
      toType == getType(to)
  IN IF fromType = "null" \/ toType = "null" THEN TRUE
     ELSE IF fromType = "undefined" \/ toType = "undefined" THEN FALSE
     ELSE fromType = toType

\* typeof key === "symbol"
IsSymbolKey(key) == key = SymKey
\* `${x}` in a template literal throws a TypeError when x is a symbol.
KeyToStringThrows(key) == IsSymbolKey(key)
ValueToStringThrows(value) == value.kind = "symbol"

\* ------------------------------------------------------------------- maps
EmptyMap == [x \in {} |-> 0]
MapHas(m, k) == k \in DOMAIN m
MapSet(m, k, x) == [y \in (DOMAIN m) \cup {k} |-> IF y = k THEN x ELSE m[y]]
MapDelete(m, k) == [y \in (DOMAIN m) \ {k} |-> m[y]]
MapSize(m) == Cardinality(DOMAIN m)

\* ------------------------------------------------------------------ state
VARIABLES
  mode,               \* let mode
  heap,               \* the raw instances alive, by identity
  ctorObjectToProxy,  \* Map raw -> wrapper, instances under construction
  ctorProxyToObject,  \* Map wrapper -> raw, instances under construction
  proxyToObject,      \* WeakMap wrapper -> raw
  releasedObjects,    \* WeakMap raw -> call stack of the Release call
  typeProperties,     \* Map class -> property set of its first instance
  checkTimerId,       \* -1, or the id of the scheduled check
  timers,             \* number of check callbacks in the host's timer queue
  stack,              \* constructor calls in progress, innermost last
  hist,               \* per instance, its history: [how, firstRelease]
                      \*  how = "New"      New is constructing it, or failed
                      \*        "returned" New has returned it
                      \*        "new"      made by a plain new expression
                      \*        "failed"   the same, and its constructor threw
                      \*        "checked"  the same, and a timer check has
                      \*                   run since
                      \*  firstRelease = the call site of the first
                      \*        Release(wrapper) of it, "" when there is none
  workload,           \* the user program's workload
  logDefendedObjectWarning,
                      \* let logDefendedObjectWarning, the function called
                      \* with every warning: "returns" is console.warn or a
                      \* callback that returns, "throws" a callback that
                      \* throws
  last                \* the operation just performed and what it reported

vars == <<mode, heap, ctorObjectToProxy, ctorProxyToObject, proxyToObject,
          releasedObjects, typeProperties, checkTimerId, timers, stack, hist,
          workload, logDefendedObjectWarning, last>>

\* ----------------------------------------------------------- raw instances
Raws == DOMAIN heap
Wrapped(i) == heap[i].wrapped
Wrappers == {-i : i \in {j \in Raws : Wrapped(j)}}
\* The Proxy's [[ProxyTarget]].
TargetOf(p) == -p

OwnKeys(i) == DOMAIN heap[i].props
\* key in target: own properties and those inherited from the class.
KeyIn(i, key) == key \in OwnKeys(i) \cup PrototypeKeys(heap[i].cls)
\* target[key]
GetValue(i, key) ==
  IF key \in OwnKeys(i) THEN heap[i].props[key]
  ELSE IF key \in PrototypeKeys(heap[i].cls) THEN Fn
  ELSE Undefined
\* getName(o) of an instance: its class name.
getName(i) == heap[i].cls

\* target[key] = value in strict-mode code: a TypeError when the key is not
\* an own property and the target is not extensible.
AssignThrows(i, key) == key \notin OwnKeys(i) /\ ~heap[i].ext
Assign(h, i, key, value) ==
  [h EXCEPT ![i].props = MapSet(h[i].props, key, value)]

\* ---------------------------------------------------------------- reports
\* One call of logDefendedObjectWarning.
Report(kind, obj, cls, key, site, names, n) ==
  [kind |-> kind, obj |-> obj, cls |-> cls, key |-> key, site |-> site,
   names |-> names, n |-> n]

NoOp == [op |-> "none", ref |-> 0, key |-> "", val |-> Undefined,
         ret |-> Undefined, threw |-> "none", reports |-> <<>>]
Did(op, ref, key, val, ret, threw, reports) ==
  [op |-> op, ref |-> ref, key |-> key, val |-> val, ret |-> ret,
   threw |-> threw, reports |-> reports]

\* The warnings an operation logs are calls of logDefendedObjectWarning, made
\* in order.  When the function throws, its error leaves the operation at the
\* first call: the later calls and the statements after it are not reached.
SinkThrows(reports) == logDefendedObjectWarning = "throws" /\ reports # <<>>
Logged(reports) == IF SinkThrows(reports) THEN <<Head(reports)>> ELSE reports

Init ==
  /\ mode = "defend"
  /\ heap = EmptyMap
  /\ ctorObjectToProxy = EmptyMap
  /\ ctorProxyToObject = EmptyMap
  /\ proxyToObject = EmptyMap
  /\ releasedObjects = EmptyMap
  /\ typeProperties = EmptyMap
  /\ checkTimerId = -1
  /\ timers = 0
  /\ stack = <<>>
  /\ hist = EmptyMap
  /\ workload \in Workloads
  /\ logDefendedObjectWarning = "returns"
  /\ last = NoOp

\* SetMode(m)
SetMode(m) ==
  /\ IF m \notin VALID_MODES
       THEN /\ last' = Did("SetMode", 0, m, Undefined, Undefined, "Error", <<>>)
            /\ UNCHANGED mode
       ELSE /\ mode' = m
            /\ last' = Did("SetMode", 0, m, Undefined, Undefined, "none", <<>>)
  /\ UNCHANGED <<heap, ctorObjectToProxy, ctorProxyToObject, proxyToObject,
                 releasedObjects, typeProperties, checkTimerId, timers, stack,
                 hist, workload,
                 logDefendedObjectWarning>>

\* The arguments passed to SetWarningCallback: a function that returns, a
\* function that throws, and a value that is not a function.
CallbackInputs == {"returns", "throws", "notAFunction"}
\* SetWarningCallback(f)
SetWarningCallback(f) ==
  /\ IF f = "notAFunction"
       THEN /\ last' = Did("SetWarningCallback", 0, f, Undefined, Undefined,
                           "TypeError", <<>>)
            /\ UNCHANGED logDefendedObjectWarning
       ELSE /\ logDefendedObjectWarning' = f
            /\ last' = Did("SetWarningCallback", 0, f, Undefined, Undefined,
                           "none", <<>>)
  /\ UNCHANGED <<mode, heap, ctorObjectToProxy, ctorProxyToObject,
                 proxyToObject, releasedObjects, typeProperties, checkTimerId,
                 timers, stack, hist, workload>>

\* ------------------------------------------------------------ defendHandler
\* The traps below give the warnings a trap logs and its outcome when
\* logDefendedObjectWarning returns; Get and Set apply the function.
\* A variant of the get trap that never logs a missing property.
defendHandler_get_silent(target, key) ==
  LET quiet == IsSymbolKey(key) \/ key \in VALID_GET_MISSING_KEYS
      released ==
        IF MapHas(releasedObjects, target) /\ ~quiet
          THEN <<Report("releasedRead", target, heap[target].cls, key,
                        releasedObjects[target], {}, 0)>>
          ELSE <<>>
  IN [reports |-> released, ret |-> GetValue(target, key)]

\* A variant of the get trap that logs nothing while the mode is off.
defendHandler_get_modal(target, key) ==
  LET quiet == IsSymbolKey(key) \/ key \in VALID_GET_MISSING_KEYS
                 \/ mode = "off"
      missing ==
        IF ~KeyIn(target, key) /\ ~quiet
          THEN <<Report("missingRead", target, getName(target), key, "", {}, 0)>>
          ELSE <<>>
      released ==
        IF MapHas(releasedObjects, target) /\ ~quiet
          THEN <<Report("releasedRead", target, getName(target), key,
                        releasedObjects[target], {}, 0)>>
          ELSE <<>>
  IN [reports |-> missing \o released, ret |-> GetValue(target, key)]

\* defendHandler.get(target, key): the warnings logged and the value returned.
defendHandler_get(target, key) ==
  LET quiet == IsSymbolKey(key) \/ key \in VALID_GET_MISSING_KEYS
      missing ==
        IF ~KeyIn(target, key) /\ ~quiet
          THEN <<Report("missingRead", target, getName(target), key, "", {}, 0)>>
          ELSE <<>>
      released ==
        IF MapHas(releasedObjects, target) /\ ~quiet
          THEN <<Report("releasedRead", target, getName(target), key,
                        releasedObjects[target], {}, 0)>>
          ELSE <<>>
  IN [reports |-> missing \o released, ret |-> GetValue(target, key)]

\* A variant of the set trap without the check for a released object.
defendHandler_set_unrevoked(target, key, value) ==
  LET inCtor == MapHas(ctorObjectToProxy, target)
      Rejected(r) == [reports |-> <<r>>, threw |-> "none", ok |-> FALSE]
      Thrown == [reports |-> <<>>, threw |-> "TypeError", ok |-> FALSE]
      Rep(kind, site) == Report(kind, target, getName(target), key, site, {}, 0)
  IN IF ~KeyIn(target, key) /\ ~inCtor
       THEN IF KeyToStringThrows(key) \/ ValueToStringThrows(value) THEN Thrown
            ELSE Rejected(Rep("setNonExistent", ""))
     ELSE IF ~isValidTypeChange(GetValue(target, key), value) /\ ~inCtor
       THEN IF KeyToStringThrows(key) THEN Thrown
            ELSE Rejected(Rep("typeChange", ""))
     ELSE IF AssignThrows(target, key) THEN Thrown
     ELSE [reports |-> <<>>, threw |-> "none", ok |-> TRUE]

\* A variant of the set trap without the exemption for constructors.
defendHandler_set_noExempt(target, key, value) ==
  LET Rejected(r) == [reports |-> <<r>>, threw |-> "none", ok |-> FALSE]
      Thrown == [reports |-> <<>>, threw |-> "TypeError", ok |-> FALSE]
      Rep(kind, site) == Report(kind, target, getName(target), key, site, {}, 0)
  IN IF MapHas(releasedObjects, target)
       THEN IF KeyToStringThrows(key) THEN Thrown
            ELSE Rejected(Rep("releasedWrite", releasedObjects[target]))
     ELSE IF ~KeyIn(target, key)
       THEN IF KeyToStringThrows(key) \/ ValueToStringThrows(value) THEN Thrown
            ELSE Rejected(Rep("setNonExistent", ""))
     ELSE IF ~isValidTypeChange(GetValue(target, key), value)
       THEN IF KeyToStringThrows(key) THEN Thrown
            ELSE Rejected(Rep("typeChange", ""))
     ELSE IF AssignThrows(target, key) THEN Thrown
     ELSE [reports |-> <<>>, threw |-> "none", ok |-> TRUE]

\* defendHandler.set(target, key, value): the warning logged, the error thrown
\* while building a message or assigning, and whether the assignment is made.
defendHandler_set(target, key, value) ==
  LET inCtor == MapHas(ctorObjectToProxy, target)
      Rejected(r) == [reports |-> <<r>>, threw |-> "none", ok |-> FALSE]
      Thrown == [reports |-> <<>>, threw |-> "TypeError", ok |-> FALSE]
      Rep(kind, site) == Report(kind, target, getName(target), key, site, {}, 0)
  IN IF MapHas(releasedObjects, target)
       THEN IF KeyToStringThrows(key) THEN Thrown
            ELSE Rejected(Rep("releasedWrite", releasedObjects[target]))
     ELSE IF ~KeyIn(target, key) /\ ~inCtor
       THEN IF KeyToStringThrows(key) \/ ValueToStringThrows(value) THEN Thrown
            ELSE Rejected(Rep("setNonExistent", ""))
     ELSE IF ~isValidTypeChange(GetValue(target, key), value) /\ ~inCtor
       THEN IF KeyToStringThrows(key) THEN Thrown
            ELSE Rejected(Rep("typeChange", ""))
     ELSE IF AssignThrows(target, key) THEN Thrown
     ELSE [reports |-> <<>>, threw |-> "none", ok |-> TRUE]

\* A variant of the delete trap that deletes during construction.
defendHandler_deleteProperty_inCtor(target, key) ==
  IF MapHas(ctorObjectToProxy, target) /\ key \in OwnKeys(target)
    THEN [threw |-> "none",
          heap |-> [heap EXCEPT ![target].props =
                      MapDelete(heap[target].props, key)]]
    ELSE [threw |-> IF KeyToStringThrows(key) THEN "TypeError"
                    ELSE "ReferenceError",
          heap |-> heap]

\* defendHandler.deleteProperty(target, key): the error thrown and the heap left.
defendHandler_deleteProperty(target, key) ==
  [threw |-> IF KeyToStringThrows(key) THEN "TypeError" ELSE "ReferenceError",
   heap |-> heap]

\* defendHandler.defineProperty(target, key, desc)
defendHandler_defineProperty(target, key) ==
  [threw |-> IF KeyToStringThrows(key) THEN "TypeError" ELSE "ReferenceError",
   heap |-> heap]

\* o[key], o a wrapper
Get(p, key) ==
  /\ p \in Wrappers
  /\ LET r == defendHandler_get(TargetOf(p), key)
     IN last' = IF SinkThrows(r.reports)
                  THEN Did("get", p, key, Undefined, Undefined, "Error",
                           Logged(r.reports))
                  ELSE Did("get", p, key, Undefined, r.ret, "none", r.reports)
  /\ UNCHANGED <<mode, heap, ctorObjectToProxy, ctorProxyToObject,
                 proxyToObject, releasedObjects, typeProperties, checkTimerId,
                 timers, stack, hist, workload,
                 logDefendedObjectWarning>>

\* o[key] = value, o a wrapper
Set(p, key, value) ==
  /\ p \in Wrappers
  /\ LET r == defendHandler_set(TargetOf(p), key, value)
     IN /\ heap' = IF r.ok THEN Assign(heap, TargetOf(p), key, value) ELSE heap
        /\ last' = Did("set", p, key, value, Undefined,
                       IF SinkThrows(r.reports) THEN "Error" ELSE r.threw,
                       Logged(r.reports))
  /\ UNCHANGED <<mode, ctorObjectToProxy, ctorProxyToObject, proxyToObject,
                 releasedObjects, typeProperties, checkTimerId, timers, stack,
                 hist, workload,
                 logDefendedObjectWarning>>

\* delete o[key], o a wrapper
Delete(p, key) ==
  /\ p \in Wrappers
  /\ LET r == defendHandler_deleteProperty(TargetOf(p), key)
     IN /\ heap' = r.heap
        /\ last' = Did("delete", p, key, Undefined, Undefined, r.threw, <<>>)
  /\ UNCHANGED <<mode, ctorObjectToProxy, ctorProxyToObject, proxyToObject,
                 releasedObjects, typeProperties, checkTimerId, timers, stack,
                 hist, workload,
                 logDefendedObjectWarning>>

\* Object.defineProperty(o, key, desc), o a wrapper
Define(p, key) ==
  /\ p \in Wrappers
  /\ LET r == defendHandler_defineProperty(TargetOf(p), key)
     IN /\ heap' = r.heap
        /\ last' = Did("define", p, key, Undefined, Undefined, r.threw, <<>>)
  /\ UNCHANGED <<mode, ctorObjectToProxy, ctorProxyToObject, proxyToObject,
                 releasedObjects, typeProperties, checkTimerId, timers, stack,
                 hist, workload,
                 logDefendedObjectWarning>>

\* ------------------------------------------------------- Release / WasReleased
\* Release(o) called at call site `site`; o is any reference.
ReleaseResult(o, site) ==
  IF MapHas(proxyToObject, o)
    THEN MapSet(releasedObjects, proxyToObject[o], site)
    ELSE releasedObjects

Release(o, site) ==
  /\ o \in Wrappers \cup Raws
  /\ releasedObjects' = ReleaseResult(o, site)
  /\ hist' = IF o \in Wrappers /\ hist[TargetOf(o)].firstRelease = ""
               THEN [hist EXCEPT ![TargetOf(o)].firstRelease = site]
               ELSE hist
  /\ last' = Did("Release", o, site, Undefined, Undefined, "none", <<>>)
  /\ UNCHANGED <<mode, heap, ctorObjectToProxy, ctorProxyToObject,
                 proxyToObject, typeProperties, checkTimerId, timers, stack,
                 workload,
                 logDefendedObjectWarning>>

\* A variant of WasReleased that looks the reference up without resolving it.
WasReleasedResult_unresolved(o) == MapHas(releasedObjects, o)

\* WasReleased(o): the boolean returned.  A stored call stack is a non-empty
\* string, so !!releasedObjects.get(realObject) is true when it is stored.
WasReleasedResult(o) ==
  IF ~MapHas(proxyToObject, o) THEN FALSE
  ELSE MapHas(releasedObjects, proxyToObject[o])

WasReleased(o) ==
  /\ o \in Wrappers \cup Raws
  /\ last' = Did("WasReleased", o, "", Undefined, Bool(WasReleasedResult(o)),
                 "none", <<>>)
  /\ UNCHANGED <<mode, heap, ctorObjectToProxy, ctorProxyToObject,
                 proxyToObject, releasedObjects, typeProperties, checkTimerId,
                 timers, stack, hist, workload,
                 logDefendedObjectWarning>>

\* ------------------------------------------------------------ construction
\* What a reference refers to: the raw instance behind a wrapper, or itself.
RawOf(o) == IF o < 0 THEN -o ELSE o
Top == stack[Len(stack)]
Frame(o, cls, viaNew) == [ref |-> o, cls |-> cls, viaNew |-> viaNew]

\* class DefendedBase, constructor(): run for the new raw instance i.  Gives
\* the value of `this` in the derived constructor and the state it leaves.
DefendedBase(i) ==
  IF mode # "defend"
    THEN [this |-> i, wrapped |-> FALSE, o2p |-> ctorObjectToProxy,
          p2o |-> ctorProxyToObject, weak |-> proxyToObject,
          timerId |-> checkTimerId, timers |-> timers]
    ELSE [this |-> -i, wrapped |-> TRUE,
          o2p |-> MapSet(ctorObjectToProxy, i, -i),
          p2o |-> MapSet(ctorProxyToObject, -i, i),
          weak |-> MapSet(proxyToObject, -i, i),
          \* setTimeout returns a positive id
          timerId |-> IF checkTimerId = -1 THEN 1 ELSE checkTimerId,
          timers |-> IF checkTimerId = -1 THEN timers + 1 ELSE timers]

\* The identity of the next instance created.
NewId == Cardinality(Raws) + 1

\* `new cls()` begins, inside New (viaNew) or as a plain new expression: the
\* instance is created and super() has returned.
Construct(cls, viaNew) ==
  /\ NewId <= InstanceLimit(workload)
  /\ LET i == NewId
         d == DefendedBase(i)
     IN /\ heap' = MapSet(heap, i, [cls |-> cls, wrapped |-> d.wrapped,
                                    props |-> EmptyMap, ext |-> TRUE])
        /\ ctorObjectToProxy' = d.o2p
        /\ ctorProxyToObject' = d.p2o
        /\ proxyToObject' = d.weak
        /\ checkTimerId' = d.timerId
        /\ timers' = d.timers
        /\ stack' = Append(stack, Frame(d.this, cls, viaNew))
        /\ hist' = MapSet(hist, i, [how |-> IF viaNew THEN "New" ELSE "new",
                                    firstRelease |-> ""])
        /\ last' = Did("construct", d.this, cls, Undefined, Undefined, "none",
                       <<>>)
  /\ UNCHANGED <<mode, releasedObjects, typeProperties, workload,
                 logDefendedObjectWarning>>

\* New(Type) with a Type that is not a function.
NewTypeError ==
  /\ last' = Did("New", 0, "", Undefined, Undefined, "TypeError", <<>>)
  /\ UNCHANGED <<mode, heap, ctorObjectToProxy, ctorProxyToObject,
                 proxyToObject, releasedObjects, typeProperties, checkTimerId,
                 timers, stack, hist, workload,
                 logDefendedObjectWarning>>

\* this[key] = value in the running constructor when `this` is a raw instance
\* (DefendedBase returned nothing because the mode was not "defend").
CtorRawSet(key, value) ==
  /\ stack # <<>>
  /\ Top.ref > 0
  /\ IF AssignThrows(Top.ref, key)
       THEN /\ UNCHANGED heap
            /\ last' = Did("rawset", Top.ref, key, value, Undefined,
                           "TypeError", <<>>)
       ELSE /\ heap' = Assign(heap, Top.ref, key, value)
            /\ last' = Did("rawset", Top.ref, key, value, Undefined, "none",
                           <<>>)
  /\ UNCHANGED <<mode, ctorObjectToProxy, ctorProxyToObject, proxyToObject,
                 releasedObjects, typeProperties, checkTimerId, timers, stack,
                 hist, workload,
                 logDefendedObjectWarning>>

\* GetObjectPropertySet(o): for-in visits the enumerable string keys; the
\* class's methods are not enumerable and symbol keys are never visited.
GetObjectPropertySet(i) == {k \in OwnKeys(i) : ~IsSymbolKey(k)}

\* A variant that keeps the record as the union of the property sets seen.
VerifyObjectPropertiesConsistent_rolling(Type, i) ==
  LET properties == GetObjectPropertySet(i)
  IN IF MapHas(typeProperties, Type)
       THEN LET existingProperties == typeProperties[Type]
                notInObject == {k \in existingProperties : k \notin properties}
                left == properties \ existingProperties
                length == Cardinality(notInObject) + Cardinality(left)
            IN [reports |->
                  IF length > 0
                    THEN <<Report("inconsistent", 0, Type, "", "",
                                  notInObject \cup left, length)>>
                    ELSE <<>>,
                typeProperties |->
                  MapSet(typeProperties, Type,
                         existingProperties \cup properties)]
       ELSE [reports |-> <<>>,
             typeProperties |-> MapSet(typeProperties, Type, properties)]

\* A variant that reports only the recorded properties the object lacks.
VerifyObjectPropertiesConsistent_oneSided(Type, i) ==
  LET properties == GetObjectPropertySet(i)
  IN IF MapHas(typeProperties, Type)
       THEN LET existingProperties == typeProperties[Type]
                notInObject == {k \in existingProperties : k \notin properties}
                length == Cardinality(notInObject)
            IN [reports |->
                  IF length > 0
                    THEN <<Report("inconsistent", 0, Type, "", "",
                                  notInObject, length)>>
                    ELSE <<>>,
                typeProperties |-> typeProperties]
       ELSE [reports |-> <<>>,
             typeProperties |-> MapSet(typeProperties, Type, properties)]

\* VerifyObjectPropertiesConsistent(Type, o): the warning logged and the
\* typeProperties map left.  inconsistentProperties is reported as the set of
\* its entries and its length.
VerifyObjectPropertiesConsistent(Type, i) ==
  LET properties == GetObjectPropertySet(i)
  IN IF MapHas(typeProperties, Type)
       THEN LET existingProperties == typeProperties[Type]
                notInObject == {k \in existingProperties : k \notin properties}
                left == properties \ existingProperties
                length == Cardinality(notInObject) + Cardinality(left)
            IN [reports |->
                  IF length > 0
                    THEN <<Report("inconsistent", 0, Type, "", "",
                                  notInObject \cup left, length)>>
                    ELSE <<>>,
                typeProperties |-> typeProperties]
       ELSE [reports |-> <<>>,
             typeProperties |-> MapSet(typeProperties, Type, properties)]

\* Object.seal(o).  On a raw instance it succeeds.  On a wrapper it makes the
\* target non-extensible and then defines each own key as non-configurable
\* through the wrapper, string keys first: the defineProperty trap throws at
\* the first key.
ObjectSeal(o) ==
  LET i == RawOf(o)
      sealed == [heap EXCEPT ![i].ext = FALSE]
      firstKey == IF GetObjectPropertySet(i) # {}
                    THEN CHOOSE k \in GetObjectPropertySet(i) : TRUE
                    ELSE SymKey
  IN IF o < 0 /\ OwnKeys(i) # {}
       THEN [heap |-> sealed,
             threw |-> defendHandler_defineProperty(i, firstKey).threw]
       ELSE [heap |-> sealed, threw |-> "none"]

\* A variant of Defend that forgets the raw instance's side of the session.
Defend_oneWay(o) ==
  IF mode = "defend"
    THEN IF ~MapHas(ctorProxyToObject, o)
           THEN [heap |-> heap, o2p |-> ctorObjectToProxy,
                 p2o |-> ctorProxyToObject, threw |-> "none"]
           ELSE [heap |-> heap,
                 o2p |-> ctorObjectToProxy,
                 p2o |-> MapDelete(ctorProxyToObject, o),
                 threw |-> "none"]
  ELSE IF mode = "seal"
    THEN [heap |-> ObjectSeal(o).heap, o2p |-> ctorObjectToProxy,
          p2o |-> ctorProxyToObject, threw |-> ObjectSeal(o).threw]
  ELSE [heap |-> heap, o2p |-> ctorObjectToProxy, p2o |-> ctorProxyToObject,
        threw |-> "none"]

\* Defend(o), o an instance of a class derived from DefendedBase.
Defend(o) ==
  IF mode = "defend"
    THEN IF ~MapHas(ctorProxyToObject, o)
           THEN [heap |-> heap, o2p |-> ctorObjectToProxy,
                 p2o |-> ctorProxyToObject, threw |-> "none"]
           ELSE LET realObject == ctorProxyToObject[o]
                IN [heap |-> heap,
                    o2p |-> MapDelete(ctorObjectToProxy, realObject),
                    p2o |-> MapDelete(ctorProxyToObject, o),
                    threw |-> "none"]
  ELSE IF mode = "seal"
    THEN [heap |-> ObjectSeal(o).heap, o2p |-> ctorObjectToProxy,
          p2o |-> ctorProxyToObject, threw |-> ObjectSeal(o).threw]
  ELSE [heap |-> heap, o2p |-> ctorObjectToProxy, p2o |-> ctorProxyToObject,
        threw |-> "none"]

\* A variant of the end of New that verifies the properties in every mode.
NewFinish_always(Type, o) ==
  LET v == VerifyObjectPropertiesConsistent(Type, RawOf(o))
      d == Defend(o)
  IN IF SinkThrows(v.reports)
       THEN [reports |-> Logged(v.reports), typeProperties |-> typeProperties,
             heap |-> heap, o2p |-> ctorObjectToProxy,
             p2o |-> ctorProxyToObject, threw |-> "Error"]
       ELSE [reports |-> v.reports, typeProperties |-> v.typeProperties,
             heap |-> d.heap, o2p |-> d.o2p, p2o |-> d.p2o, threw |-> d.threw]
\* New(Type), after the constructor has returned: the shape check in "defend"
\* mode, then Defend(o).  An error thrown by logDefendedObjectWarning leaves
\* the shape check before it returns, and New before Defend(o).
NewFinish(Type, o) ==
  LET v == IF mode = "defend"
             THEN VerifyObjectPropertiesConsistent(Type, RawOf(o))
             ELSE [reports |-> <<>>, typeProperties |-> typeProperties]
      d == Defend(o)
  IN IF SinkThrows(v.reports)
       THEN [reports |-> Logged(v.reports), typeProperties |-> typeProperties,
             heap |-> heap, o2p |-> ctorObjectToProxy,
             p2o |-> ctorProxyToObject, threw |-> "Error"]
       ELSE [reports |-> v.reports, typeProperties |-> v.typeProperties,
             heap |-> d.heap, o2p |-> d.o2p, p2o |-> d.p2o, threw |-> d.threw]

\* A variant of the catch clause that leaves the maps as they are.
NewCatch_keeps == [o2p |-> ctorObjectToProxy, p2o |-> ctorProxyToObject]
\* New(Type), catch clause: the session maps left when an error escapes the
\* constructor.
NewCatch == [o2p |-> EmptyMap, p2o |-> EmptyMap]

\* An error leaves the j innermost constructor calls: each one that New runs
\* passes through New's catch clause.  The error is caught by the code below.
Kept(s, j) == SubSeq(s, 1, Len(s) - j)
PassesNewCatch(s, j) == \E n \in (Len(s) - j + 1)..Len(s) : s[n].viaNew
Unwound(s, j, o2p, p2o) ==
  IF PassesNewCatch(s, j) THEN NewCatch ELSE [o2p |-> o2p, p2o |-> p2o]

\* The history after an error has left the j innermost constructor calls:
\* the instances of plain new expressions among them were never made.
Abandoned(s, j, h) ==
  [i \in DOMAIN h |->
     IF \E n \in (Len(s) - j + 1)..Len(s) :
          RawOf(s[n].ref) = i /\ ~s[n].viaNew
       THEN [h[i] EXCEPT !.how = "failed"]
       ELSE h[i]]

\* The innermost constructor returns normally to New, which returns normally.
NewReturn ==
  /\ stack # <<>>
  /\ Top.viaNew
  /\ LET f == NewFinish(Top.cls, Top.ref)
     IN /\ f.threw = "none"
        /\ typeProperties' = f.typeProperties
        /\ heap' = f.heap
        /\ ctorObjectToProxy' = f.o2p
        /\ ctorProxyToObject' = f.p2o
        /\ last' = Did("New", Top.ref, Top.cls, Undefined, Undefined, "none",
                       f.reports)
  /\ stack' = Kept(stack, 1)
  /\ hist' = [hist EXCEPT ![RawOf(Top.ref)].how = "returned"]
  /\ UNCHANGED <<mode, proxyToObject, releasedObjects, checkTimerId, timers, workload,
                 logDefendedObjectWarning>>

\* The innermost constructor returns normally to New, and Object.seal throws
\* inside Defend or logDefendedObjectWarning throws inside the shape check.
\* The error leaves New and j enclosing constructor calls.
NewSealThrows(j) ==
  /\ stack # <<>>
  /\ Top.viaNew
  /\ j \in 0..(Len(stack) - 1)
  /\ LET f == NewFinish(Top.cls, Top.ref)
         u == Unwound(Kept(stack, 1), j, f.o2p, f.p2o)
     IN /\ f.threw # "none"
        /\ typeProperties' = f.typeProperties
        /\ heap' = f.heap
        /\ ctorObjectToProxy' = u.o2p
        /\ ctorProxyToObject' = u.p2o
        /\ last' = Did("New", Top.ref, Top.cls, Undefined, Undefined, f.threw,
                       f.reports)
  /\ stack' = Kept(stack, j + 1)
  /\ hist' = Abandoned(stack, j + 1, hist)
  /\ UNCHANGED <<mode, proxyToObject, releasedObjects, checkTimerId, timers,
                 workload,
                 logDefendedObjectWarning>>

\* The innermost constructor, run by a plain new expression, returns normally.
PlainNewReturn ==
  /\ stack # <<>>
  /\ ~Top.viaNew
  /\ stack' = Kept(stack, 1)
  /\ last' = Did("new", Top.ref, Top.cls, Undefined, Undefined, "none", <<>>)
  /\ UNCHANGED <<mode, heap, ctorObjectToProxy, ctorProxyToObject,
                 proxyToObject, releasedObjects, typeProperties, checkTimerId,
                 timers, hist, workload,
                 logDefendedObjectWarning>>

\* The innermost constructor throws; the error leaves j constructor calls.
CtorThrow(j) ==
  /\ j \in 1..Len(stack)
  /\ LET u == Unwound(stack, j, ctorObjectToProxy, ctorProxyToObject)
     IN /\ ctorObjectToProxy' = u.o2p
        /\ ctorProxyToObject' = u.p2o
  /\ stack' = Kept(stack, j)
  /\ hist' = Abandoned(stack, j, hist)
  /\ last' = Did(IF Top.viaNew THEN "New" ELSE "new", Top.ref, Top.cls,
                 Undefined, Undefined, "Error", <<>>)
  /\ UNCHANGED <<mode, heap, proxyToObject, releasedObjects, typeProperties,
                 checkTimerId, timers, workload,
                 logDefendedObjectWarning>>

\* ----------------------------------------------------------- the idle check
\* A variant of the timer check that warns and leaves the maps as they are.
CheckResult_keeps ==
  IF MapSize(ctorObjectToProxy) > 0 \/ MapSize(ctorProxyToObject) > 0
    THEN [reports |->
            <<Report("missingNew", 0, "", "", "",
                     {getName(o) : o \in DOMAIN ctorObjectToProxy},
                     Cardinality({getName(o) : o \in DOMAIN ctorObjectToProxy}))>>,
          o2p |-> IF logDefendedObjectWarning = "throws"
                    THEN ctorObjectToProxy ELSE ctorObjectToProxy,
          p2o |-> IF logDefendedObjectWarning = "throws"
                    THEN ctorProxyToObject ELSE ctorProxyToObject,
          threw |-> IF logDefendedObjectWarning = "throws"
                      THEN "Error" ELSE "none"]
    ELSE [reports |-> <<>>, o2p |-> ctorObjectToProxy,
          p2o |-> ctorProxyToObject, threw |-> "none"]
\* CheckDefendedObjectsUsedCorrectly(): the warning logged and the maps left.
\* The maps are cleared after logDefendedObjectWarning has returned.
CheckResult ==
  IF MapSize(ctorObjectToProxy) > 0 \/ MapSize(ctorProxyToObject) > 0
    THEN [reports |->
            <<Report("missingNew", 0, "", "", "",
                     {getName(o) : o \in DOMAIN ctorObjectToProxy},
                     Cardinality({getName(o) : o \in DOMAIN ctorObjectToProxy}))>>,
          o2p |-> IF logDefendedObjectWarning = "throws"
                    THEN ctorObjectToProxy ELSE EmptyMap,
          p2o |-> IF logDefendedObjectWarning = "throws"
                    THEN ctorProxyToObject ELSE EmptyMap,
          threw |-> IF logDefendedObjectWarning = "throws"
                      THEN "Error" ELSE "none"]
    ELSE [reports |-> <<>>, o2p |-> ctorObjectToProxy,
          p2o |-> ctorProxyToObject, threw |-> "none"]

\* The timer callback runs: only between synchronous runs of user code.
CheckDefendedObjectsUsedCorrectly ==
  /\ timers > 0
  /\ stack = <<>>
  /\ timers' = timers - 1
  /\ checkTimerId' = -1
  /\ ctorObjectToProxy' = CheckResult.o2p
  /\ ctorProxyToObject' = CheckResult.p2o
  /\ hist' = [i \in DOMAIN hist |->
                IF hist[i].how = "new" THEN [hist[i] EXCEPT !.how = "checked"]
                ELSE hist[i]]
  /\ last' = Did("check", 0, "", Undefined, Undefined, CheckResult.threw,
                 CheckResult.reports)
  /\ UNCHANGED <<mode, heap, proxyToObject, releasedObjects, typeProperties,
                 stack, workload,
                 logDefendedObjectWarning>>

\* ------------------------------------------------------ garbage collection
OnStack(i) == \E n \in 1..Len(stack) : RawOf(stack[n].ref) = i
\* An instance the program can drop: what keeps an instance alive besides the
\* program's own references is a running constructor or a session map (both
\* Maps are strong).  An instance made by a plain new expression is kept
\* until the timer check has run.
IsGarbage(i) ==
  /\ ~OnStack(i)
  /\ ~MapHas(ctorObjectToProxy, i)
  /\ ~MapHas(ctorProxyToObject, -i)
  /\ hist[i].how # "new"
Garbage == {i \in Raws : IsGarbage(i)}

\* The instance is collected; the WeakMaps lose its entries.
\* The instances alive are numbered 1..n in order of creation: when instance
\* i goes, the identities after it move down by one.
Moved(i, r) == IF r > i THEN r - 1 ELSE IF r < -i THEN r + 1 ELSE r
\* Map m without the key gone, its other keys renumbered.
MovedKeys(i, gone, m) ==
  LET old == (DOMAIN m) \ {gone}
  IN [k \in {Moved(i, x) : x \in old} |->
        m[CHOOSE x \in old : Moved(i, x) = k]]
\* The same for a map whose values are identities too.
MovedMap(i, gone, m) ==
  LET n == MovedKeys(i, gone, m)
  IN [k \in DOMAIN n |-> Moved(i, n[k])]

Collect(i) ==
  /\ i \in Garbage
  /\ heap' = MovedKeys(i, i, heap)
  /\ hist' = MovedKeys(i, i, hist)
  /\ proxyToObject' = MovedMap(i, -i, proxyToObject)
  /\ releasedObjects' = MovedKeys(i, i, releasedObjects)
  /\ ctorObjectToProxy' = MovedMap(i, i, ctorObjectToProxy)
  /\ ctorProxyToObject' = MovedMap(i, -i, ctorProxyToObject)
  /\ stack' = [n \in DOMAIN stack |->
                 [stack[n] EXCEPT !.ref = Moved(i, stack[n].ref)]]
  /\ UNCHANGED <<mode, typeProperties, checkTimerId, timers, workload,
                 logDefendedObjectWarning, last>>

\* The references the program holds.  In the access workload, every
\* instance and wrapper; in the lifecycle workload only `this` of the running
\* constructor.
This == IF stack = <<>> THEN {} ELSE {Top.ref}
Held(w) == IF w = "access" THEN Wrappers ELSE This \cap Wrappers
\* The references passed to Release and WasReleased: any held reference in
\* the access workload, `this` in the lifecycle one when it is not wrapped.
Refs(w) == IF w = "access" THEN Wrappers \cup Raws ELSE This \cap Raws

\* `last` records one operation.  It is cleared before the next operation
\* begins, so that what is explored from a state does not depend on which
\* operation led to it; garbage is collected before the next operation too.
Settled == last = NoOp
Ready == Settled /\ (workload = "lifecycle" => Garbage = {})
Observe ==
  /\ ~Settled
  /\ last' = NoOp
  /\ UNCHANGED <<mode, heap, ctorObjectToProxy, ctorProxyToObject,
                 proxyToObject, releasedObjects, typeProperties, checkTimerId,
                 timers, stack, hist, workload,
                 logDefendedObjectWarning>>

Next ==
  \/ Observe
  \/ Settled /\ \E i \in Raws : Collect(i)
  \/ Ready /\ \E m \in ModeInputs : SetMode(m)
  \/ Ready /\ \E c \in Constructions(workload) : Construct(c[1], c[2])
  \/ Ready /\ NewTypeError
  \/ Ready /\ \E w \in Writes(workload) : CtorRawSet(w[1], w[2])
  \/ Ready /\ NewReturn
  \/ Ready /\ \E j \in 0..MaxObjs : NewSealThrows(j)
  \/ Ready /\ PlainNewReturn
  \/ Ready /\ \E j \in 1..MaxObjs : CtorThrow(j)
  \/ Ready /\ CheckDefendedObjectsUsedCorrectly
  \/ Ready /\ \E p \in Held(workload), key \in AccessKeys(workload) : Get(p, key)
  \/ Ready /\ \E p \in Held(workload), w \in Writes(workload) : Set(p, w[1], w[2])
  \/ Ready /\ \E p \in Held(workload), key \in AccessKeys(workload) : Delete(p, key)
  \/ Ready /\ \E p \in Held(workload), key \in AccessKeys(workload) : Define(p, key)
  \/ Ready /\ \E o \in Refs(workload), site \in ReleaseSites(workload) :
                Release(o, site)
  \/ Ready /\ \E o \in Refs(workload) : WasReleased(o)

\* The program with the default logDefendedObjectWarning.
Spec == Init /\ [][Next]_vars

\* --------------------------------------------- with SetWarningCallback
\* The program of the lifecycle workload also replaces
\* logDefendedObjectWarning, at any point between two operations.
NextSink ==
  \/ Next
  \/ Ready /\ \E f \in CallbackInputs : SetWarningCallback(f)
InitSink == Init /\ workload = "lifecycle"
SpecSink == InitSink /\ [][NextSink]_vars

\* ------------------------------------------- isValidTypeChange on its own
\* The values the function is applied to: one of every kind, and two more
\* numbers.
TypeInputs == AllValues \cup {Num1, Num2}
\* isValidTypeChange(from, to) is called; last records the call.
TypeChange(from, to) ==
  /\ last' = [op |-> "isValidTypeChange", from |-> from, to |-> to,
              ret |-> Bool(isValidTypeChange(from, to))]
  /\ UNCHANGED <<mode, heap, ctorObjectToProxy, ctorProxyToObject,
                 proxyToObject, releasedObjects, typeProperties, checkTimerId,
                 timers, stack, hist, workload,
                 logDefendedObjectWarning>>
NextTypes == \E from \in TypeInputs, to \in TypeInputs : TypeChange(from, to)
SpecTypes == Init /\ [][NextTypes]_vars

\* ===================================================================
\* Properties.  A step of an operation leaves its record in last', so a
\* property of an operation compares the state before the step (unprimed)
\* with the state after it (primed).
\* ===================================================================
IsStep(op) == last'.op = op
\* The step is the write p[k] = v.
WriteStep(p, k, v) ==
  last'.op = "set" /\ last'.ref = p /\ last'.key = k /\ last'.val = v
OneReport(kind) == Len(last'.reports) = 1 /\ last'.reports[1].kind = kind
NoReport == last'.reports = <<>>
InSession(i) == MapHas(ctorObjectToProxy, i)
IsReleased(i) == MapHas(releasedObjects, i)
\* An instance New has returned as a wrapper.
Finalized(i) == Wrapped(i) /\ hist[i].how = "returned"

\* ------------------------------------------------------------------- C1
\* C1: a write through a wrapper is decided by the first matching rule of
\* (1) released -> one released-write report, discarded; (2) key absent and
\* not in a session -> one set-non-existent report, discarded; (3) invalid
\* type change and not in a session -> one type-change report, discarded;
\* (4) otherwise applied, nothing reported.  The write never raises, and a
\* discarded write leaves the instance unchanged.
C1_WriteRules ==
  [][IsStep("set") =>
       LET t == TargetOf(last'.ref)
           k == last'.key
           v == last'.val
       IN /\ last'.threw = "none"
          /\ IF IsReleased(t)
               THEN OneReport("releasedWrite") /\ heap' = heap
             ELSE IF ~KeyIn(t, k) /\ ~InSession(t)
               THEN OneReport("setNonExistent") /\ heap' = heap
             ELSE IF ~isValidTypeChange(GetValue(t, k), v) /\ ~InSession(t)
               THEN OneReport("typeChange") /\ heap' = heap
             ELSE NoReport /\ heap' = Assign(heap, t, k, v)]_vars

\* ------------------------------------------------------------------- C2
\* C2 as stated: for every existing property of every instrumented
\* instance, a write of a value with the same classification succeeds and
\* the next read returns it; a write of a value with a different
\* classification is rejected, the next read returns the prior value and
\* exactly one soft violation is reported.
C2_AsStated ==
  [][\A p \in Wrappers, k \in Keys, v \in Values :
       LET t == TargetOf(p)
           cur == GetValue(t, k)
       IN (WriteStep(p, k, v) /\ k \in OwnKeys(t)) =>
            IF getType(cur) = getType(v)
              THEN /\ last'.threw = "none"
                   /\ NoReport
                   /\ (defendHandler_get(t, k).ret)' = v
              ELSE /\ Len(last'.reports) = 1
                   /\ (defendHandler_get(t, k).ret)' = cur]_vars

\* C2: for an instance that is neither released nor in an open Construction
\* Session and an own property with a string name: a write of a value with
\* the same classification as the current value, other than undefined,
\* succeeds and the next read returns it; a write of a value with a
\* different classification, neither of the two being null, is rejected,
\* the next read returns the prior value, and exactly one soft violation is
\* reported.
C2_TypedWrite ==
  [][\A p \in Wrappers, k \in Keys, v \in Values :
       LET t == TargetOf(p)
           cur == GetValue(t, k)
       IN (/\ WriteStep(p, k, v)
           /\ k \in OwnKeys(t)
           /\ ~IsSymbolKey(k)
           /\ ~IsReleased(t)
           /\ ~InSession(t)) =>
            /\ (getType(cur) = getType(v) /\ getType(v) # "undefined") =>
                 /\ last'.threw = "none"
                 /\ NoReport
                 /\ (defendHandler_get(t, k).ret)' = v
            /\ (getType(cur) # getType(v) /\ getType(cur) # "null"
                  /\ getType(v) # "null") =>
                 /\ last'.threw = "none"
                 /\ OneReport("typeChange")
                 /\ heap' = heap
                 /\ (defendHandler_get(t, k).ret)' = cur]_vars

\* A number property of a finalized instance has just refused a symbol.
C2_Witness ==
  /\ last.op = "set"
  /\ last.key = "_a"
  /\ last.val = Sym
  /\ Finalized(TargetOf(last.ref))
  /\ ~IsReleased(TargetOf(last.ref))
  /\ ~InSession(TargetOf(last.ref))
  /\ "_a" \in OwnKeys(TargetOf(last.ref))
  /\ GetValue(TargetOf(last.ref), "_a") = Num2
  /\ Len(last.reports) = 1
  /\ last.reports[1].kind = "typeChange"

\* ------------------------------------------------------------------- C3
\* The step is the read p[k].
ReadStep(p, k) == last'.op = "get" /\ last'.ref = p /\ last'.key = k
\* C3 as stated: on an instance New has returned, a read of a name outside
\* the instance's property set returns undefined and reports exactly one
\* soft violation; a read of a name inside the set returns the stored value.
C3_AsStated ==
  [][\A p \in Wrappers, k \in Keys :
       (ReadStep(p, k) /\ Finalized(TargetOf(p))) =>
          IF k \in OwnKeys(TargetOf(p))
            THEN last'.ret = heap[TargetOf(p)].props[k]
            ELSE last'.ret = Undefined /\ Len(last'.reports) = 1]_vars

\* C3: on an instance New has returned, a read of a string name that is
\* neither in the instance's property set, nor inherited from its class,
\* nor one of the keys then and splice returns undefined and reports one
\* missing-property violation, and one released-object violation more when
\* the instance has been released; a read of a name inside the set returns
\* the stored value.
C3_MissingRead ==
  [][\A p \in Wrappers, k \in Keys :
       LET t == TargetOf(p)
       IN (ReadStep(p, k) /\ Finalized(t)) =>
            /\ k \in OwnKeys(t) => last'.ret = heap[t].props[k]
            /\ (/\ k \notin OwnKeys(t)
                /\ k \notin PrototypeKeys(heap[t].cls)
                /\ ~IsSymbolKey(k)
                /\ k \notin VALID_GET_MISSING_KEYS) =>
                 /\ last'.ret = Undefined
                 /\ last'.threw = "none"
                 /\ Len(last'.reports) = IF IsReleased(t) THEN 2 ELSE 1
                 /\ last'.reports[1].kind = "missingRead"
                 /\ last'.reports[1].key = k
                 /\ IsReleased(t) => last'.reports[2].kind = "releasedRead"]_vars

\* A finalized, unreleased instance that holds _a has just been read at _b.
C3_Witness ==
  /\ last.op = "get"
  /\ last.key = "_b"
  /\ Finalized(TargetOf(last.ref))
  /\ ~IsReleased(TargetOf(last.ref))
  /\ OwnKeys(TargetOf(last.ref)) = {"_a"}
  /\ last.ret = Undefined
  /\ Len(last.reports) = 1
  /\ last.reports[1].kind = "missingRead"

\* ------------------------------------------------------------------- C4
\* C4: a delete and a structural define of any key through a wrapper always
\* throw and never change the instance, whether the instance is in an open
\* Construction Session, finalized, or released.
C4_DeleteDefineThrow ==
  [][(IsStep("delete") \/ IsStep("define")) =>
       /\ last'.threw # "none"
       /\ heap' = heap]_vars

\* A delete of an own property has just thrown inside an open Construction
\* Session.
C4_Witness ==
  /\ last.op = "delete"
  /\ last.threw = "ReferenceError"
  /\ InSession(TargetOf(last.ref))
  /\ last.key \in OwnKeys(TargetOf(last.ref))

\* ------------------------------------------------------------------- C5
\* Operations performed through a wrapper, and SetMode.
WrapperOps ==
  {"get", "set", "delete", "define", "Release", "WasReleased", "SetMode"}
\* C5: once New has returned an instance, no read, write (of any key, the
\* method names it inherits included, and any value), delete, define,
\* Release or SetMode adds a name to or removes a name from the property
\* names stored on its raw instance.
C5_FixedNames ==
  [][last'.op \in WrapperOps =>
       \A i \in Raws : Finalized(i) => DOMAIN heap'[i].props = OwnKeys(i)]_vars

\* ------------------------------------------------------------------- C6
\* Release(wrapper of i) has been called.
ReleaseCalled(i) == hist[i].firstRelease # ""
ReleasedKinds == {"releasedRead", "releasedWrite"}
\* No step of the program takes an instance out of the release ledger.
LedgerKeeps ==
  last'.op # "none" => DOMAIN releasedObjects \subseteq DOMAIN releasedObjects'
\* C6 as stated: after Release(o), every read and every write through o, of
\* every key, reports a released-object violation, and a released instance
\* never leaves the ledger.
C6_AsStated ==
  [][/\ (IsStep("get") \/ IsStep("set")) /\ ReleaseCalled(TargetOf(last'.ref))
         => \E n \in 1..Len(last'.reports) :
               last'.reports[n].kind \in ReleasedKinds
     /\ LedgerKeeps]_vars

\* C6: after Release(o), every read through o of a key that is neither a
\* Symbol nor one of then and splice reports a released-object violation,
\* whether or not the key exists; every write through o of a string key
\* reports exactly one released-object violation and is discarded; this
\* holds on every access, and no later operation takes a released instance
\* out of the ledger.
C6_ReleasedAccess ==
  [][/\ \A p \in Wrappers :
          LET t == TargetOf(p)
              k == last'.key
          IN (ReleaseCalled(t) /\ last'.ref = p) =>
               /\ (IsStep("get") /\ ~IsSymbolKey(k)
                      /\ k \notin VALID_GET_MISSING_KEYS) =>
                    \E n \in 1..Len(last'.reports) :
                       /\ last'.reports[n].kind = "releasedRead"
                       /\ last'.reports[n].key = k
               /\ (IsStep("set") /\ ~IsSymbolKey(k)) =>
                    /\ OneReport("releasedWrite")
                    /\ last'.threw = "none"
                    /\ heap' = heap
     /\ LedgerKeeps]_vars

\* A released instance has just refused a write of a number to its number
\* property _a, which would have been applied before the Release.
C6_Witness ==
  /\ last.op = "set"
  /\ last.key = "_a"
  /\ last.val = Num2
  /\ ReleaseCalled(TargetOf(last.ref))
  /\ GetValue(TargetOf(last.ref), "_a") = Num1
  /\ Len(last.reports) = 1
  /\ last.reports[1].kind = "releasedWrite"

\* ------------------------------------------------------------------- C7
\* C7: the context a released-object violation cites is the call site of
\* the first Release of the instance; a later Release does not replace it.
C7_FirstContext ==
  [][(IsStep("get") \/ IsStep("set")) =>
       \A n \in 1..Len(last'.reports) :
          last'.reports[n].kind \in ReleasedKinds =>
            last'.reports[n].site = hist[TargetOf(last'.ref)].firstRelease]_vars

\* ------------------------------------------------------------------- C8
\* C8: WasReleased(o) of a wrapper o returns false before the first
\* Release(o) and true after it, reports nothing and changes no state.
C8_WasReleased ==
  [][(IsStep("WasReleased") /\ last'.ref \in Wrappers) =>
       /\ last'.ret = Bool(ReleaseCalled(TargetOf(last'.ref)))
       /\ last'.threw = "none"
       /\ NoReport
       /\ UNCHANGED <<mode, heap, ctorObjectToProxy, ctorProxyToObject,
                      proxyToObject, releasedObjects, typeProperties,
                      checkTimerId, timers>>]_vars

\* WasReleased has just returned true for a wrapper released at one site
\* and then again at another.
C8_Witness ==
  /\ last.op = "WasReleased"
  /\ last.ref \in Wrappers
  /\ last.ret = JSTrue
  /\ hist[TargetOf(last.ref)].firstRelease = "site1"
  /\ releasedObjects[TargetOf(last.ref)] = "site2"

\* ------------------------------------------------------------------- C9
\* The string-named properties an instance holds.
PropertyNames(i) == {k \in DOMAIN heap[i].props : k # SymKey}
SymmetricDifference(a, b) == (a \ b) \cup (b \ a)
\* C9: in defend mode, for a class whose shape record exists, a successful
\* New whose instance's property names differ from the record reports
\* exactly one inconsistent-properties violation naming exactly the keys of
\* the symmetric difference; an instance with the recorded names reports
\* nothing; the record stays as it is, so every inconsistent instance is
\* reported.
C9_ShapeCheck ==
  [][\A c \in Classes :
       (/\ IsStep("New") /\ last'.threw = "none" /\ last'.key = c
        /\ mode = "defend"
        /\ MapHas(typeProperties, c)) =>
          LET diff == SymmetricDifference(typeProperties[c],
                                          PropertyNames(RawOf(last'.ref)))
          IN /\ typeProperties' = typeProperties
             /\ IF diff = {}
                  THEN NoReport
                  ELSE /\ OneReport("inconsistent")
                       /\ last'.reports[1].cls = c
                       /\ last'.reports[1].names = diff
                       /\ last'.reports[1].n = Cardinality(diff)]_vars

\* New has just returned a Test holding _b where the record holds _a, and
\* reported both names.
C9_Witness ==
  /\ last.op = "New"
  /\ last.threw = "none"
  /\ mode = "defend"
  /\ MapHas(typeProperties, "Test")
  /\ typeProperties["Test"] = {"_a"}
  /\ PropertyNames(RawOf(last.ref)) = {"_b"}
  /\ Len(last.reports) = 1
  /\ last.reports[1].names = {"_a", "_b"}

\* ------------------------------------------------------------------ C10
\* Wrapped instances made by a plain new expression that no timer check has
\* seen yet.
MadeWithoutNew == {i \in Raws : Wrapped(i) /\ hist[i].how = "new"}
ClassesOf(s) == {heap[i].cls : i \in s}
SessionsCleared ==
  ctorObjectToProxy' = EmptyMap /\ ctorProxyToObject' = EmptyMap
\* A timer check finds no open session of an instance an earlier check saw.
SeenOnce == \A i \in Raws : hist[i].how = "checked" => ~InSession(i)
\* C10 as stated: when instances were constructed without New, the next
\* timer check reports exactly one missing-New violation naming the class
\* of each of them and clears the sessions, and later checks report nothing
\* more for them, whatever New calls happened in between.
C10_AsStated ==
  [][IsStep("check") =>
       /\ MadeWithoutNew # {} =>
            /\ OneReport("missingNew")
            /\ ClassesOf(MadeWithoutNew) \subseteq last'.reports[1].names
            /\ SessionsCleared
       /\ SeenOnce]_vars

\* C10: when instances were constructed without New and no New call has
\* failed since (a failing New clears every open session), the next timer
\* check reports exactly one missing-New violation naming the class of each
\* of them and clears the sessions; a check that finds no open session
\* reports nothing; later checks report nothing more for those instances.
C10_MissingNew ==
  [][IsStep("check") =>
       LET owed == {i \in MadeWithoutNew : InSession(i)}
       IN /\ owed # {} =>
               /\ OneReport("missingNew")
               /\ ClassesOf(owed) \subseteq last'.reports[1].names
          /\ DOMAIN ctorObjectToProxy = {} => NoReport
          /\ SessionsCleared
          /\ SeenOnce]_vars

\* A timer check has just named the two classes of two instances made
\* without New.
C10_Witness ==
  /\ last.op = "check"
  /\ Len(last.reports) = 1
  /\ last.reports[1].kind = "missingNew"
  /\ last.reports[1].names = {"Test", "InconsistentProperties"}
  /\ \E i, j \in Raws : /\ heap[i].cls = "Test" /\ hist[i].how = "checked"
                        /\ heap[j].cls = "InconsistentProperties"
                        /\ hist[j].how = "checked"
  /\ ctorObjectToProxy = EmptyMap

\* ------------------------------------------------------------------ C11
\* A wrapped instance made by a plain new expression whose constructor did
\* not throw.
WithoutNew(i) == Wrapped(i) /\ hist[i].how \in {"new", "checked"}
\* The write p[k] = v adds a name or changes the classification of a value.
ShapeChanging(t, k, v) ==
  k \notin OwnKeys(t) \/ getType(GetValue(t, k)) # getType(v)
Applied(t, k, v) ==
  last'.threw = "none" /\ NoReport /\ heap' = Assign(heap, t, k, v)
Left == (Len(stack') + 1)..Len(stack)
\* The error has left a constructor that New was running: the innermost
\* one when the constructor itself threw, or an enclosing one.
NewConstructorThrew ==
  /\ last'.op \in {"New", "new"}
  /\ last'.threw # "none"
  /\ \E n \in Left :
        stack[n].viaNew /\ (n < Len(stack) \/ last'.threw = "Error")
\* C12: when the constructor run by New throws, New removes every open
\* Construction Session in both directions, the error goes on to the
\* caller, and no shape record is created or changed.
C12_FailingNew ==
  [][NewConstructorThrew =>
       /\ SessionsCleared
       /\ last'.threw \in {"Error", "TypeError", "ReferenceError"}
       /\ Len(stack') < Len(stack)
       /\ typeProperties' = typeProperties]_vars

\* A New whose constructor threw has just taken with it the session of an
\* instance made earlier by a plain new expression.
C12_Witness ==
  /\ last.op = "New"
  /\ last.threw = "Error"
  /\ ctorObjectToProxy = EmptyMap
  /\ ctorProxyToObject = EmptyMap
  /\ \E i \in Raws : /\ Wrapped(i) /\ hist[i].how = "new" /\ ~OnStack(i)
                     /\ i # RawOf(last.ref)

\* ------------------------------------------------------------------ C13
\* The mode an operation other than SetMode ran in is the mode it leaves.
RanInOff == mode = "off" /\ last.op \notin {"SetMode", "none"}
\* C13 as stated: while the mode is off no operation on any object reports
\* a soft violation.
C13_AsStated == RanInOff => last.reports = <<>>

\* C13: while the mode is off, New, a plain new expression, Release and
\* WasReleased report no soft violation, and every soft violation that is
\* reported concerns wrappers made while the mode was defend: a read or a
\* write through such a wrapper, or the timer check of sessions such
\* wrappers opened.
C13_OffMode ==
  RanInOff =>
    /\ last.op \in {"construct", "New", "new", "rawset", "Release",
                    "WasReleased", "delete", "define"}
         => last.reports = <<>>
    /\ (last.op \in {"get", "set"} /\ last.reports # <<>>)
         => Wrapped(TargetOf(last.ref))
    /\ (last.op = "check" /\ last.reports # <<>>)
         => \A c \in last.reports[1].names :
               \E i \in Raws : Wrapped(i) /\ heap[i].cls = c

\* In off mode New has just returned, without a report, a Test that holds
\* other names than the shape record of Test.
C13_Witness ==
  /\ mode = "off"
  /\ last.op = "New"
  /\ last.threw = "none"
  /\ last.reports = <<>>
  /\ ~Wrapped(RawOf(last.ref))
  /\ MapHas(typeProperties, "Test")
  /\ PropertyNames(RawOf(last.ref)) # typeProperties["Test"]

\* ------------------------------------------------------------------ C14
\* What the four traps decide for instance i stays as it is over the step.
SameDecisions(i) ==
  /\ \A k \in Keys :
        /\ (defendHandler_get(i, k))' = defendHandler_get(i, k)
        /\ (defendHandler_deleteProperty(i, k).threw)' =
              defendHandler_deleteProperty(i, k).threw
        /\ (defendHandler_defineProperty(i, k).threw)' =
              defendHandler_defineProperty(i, k).threw
  /\ \A k \in Keys, v \in Values :
        (defendHandler_set(i, k, v))' = defendHandler_set(i, k, v)
\* Instance i has no wrapper, no session and no tracked identity after the
\* step.
StaysRaw(i) ==
  /\ i \in DOMAIN heap'
  /\ ~heap'[i].wrapped
  /\ i \notin DOMAIN ctorObjectToProxy'
  /\ -i \notin DOMAIN ctorProxyToObject'
  /\ -i \notin DOMAIN proxyToObject'
\* C14: SetMode leaves an instance New returned under defend mode with the
\* same wrapper, the same properties and the same read, write, delete and
\* define decisions; an instance built while the mode was off stays a raw
\* object without wrapper, session or tracked identity through every later
\* operation, a switch to defend mode included.
C14_ModeFrame ==
  [][/\ IsStep("SetMode") =>
          \A i \in Raws : Finalized(i) =>
             /\ heap'[i] = heap[i]
             /\ MapHas(proxyToObject', -i) /\ proxyToObject'[-i] = i
             /\ SameDecisions(i)
     /\ last'.op # "none" => \A i \in Raws : ~Wrapped(i) => StaysRaw(i)]_vars

\* The mode has just been switched off with a wrapper alive that New
\* returned under defend mode and that lacks the property _b.
C14_Witness ==
  /\ last.op = "SetMode"
  /\ last.key = "off"
  /\ mode = "off"
  /\ \E i \in Raws : Finalized(i) /\ OwnKeys(i) = {"_a"}

\* ------------------------------------------------------------------ C15
\* C15: over every pair of classifications among null, undefined, boolean,
\* number, string, array, object, function and symbol, isValidTypeChange is
\* true when either side is null, otherwise false when either side is
\* undefined, otherwise true exactly when the two classifications are the
\* same, an array being classified apart from other objects.
C15_TypeChangeTable ==
  last.op = "isValidTypeChange" =>
    LET f == last.from.kind
        t == last.to.kind
    IN last.ret = Bool(IF f = "null" \/ t = "null" THEN TRUE
                       ELSE IF f = "undefined" \/ t = "undefined" THEN FALSE
                       ELSE f = t)

\* The change from an array to another object has just been found invalid.
C15_Witness ==
  /\ last.op = "isValidTypeChange"
  /\ last.from.kind = "array"
  /\ last.to.kind = "object"
  /\ last.ret = JSFalse

\* ------------------------------------------------------------------ C16
\* C16: a write through the wrapper of an instance New has returned, its
\* Construction Session closed, leaves no property of the instance holding
\* undefined that did not hold it before.
C16_NeverUndefined ==
  [][\A p \in Wrappers :
       LET t == TargetOf(p)
       IN (IsStep("set") /\ last'.ref = p /\ Finalized(t) /\ ~InSession(t)) =>
            \A k \in DOMAIN heap'[t].props :
               heap'[t].props[k] = Undefined =>
                 k \in OwnKeys(t) /\ heap[t].props[k] = Undefined]_vars

\* ------------------------------------------------------------------ C17
\* New has returned normally in defend mode.
NewSucceeded ==
  IsStep("New") /\ last'.threw = "none" /\ mode = "defend"
\* C17: the shape record of a class is written once, by the first New of
\* the class that succeeds in defend mode, as the property names of that
\* instance, and no later step changes or removes it.
C17_RecordOnce ==
  [][/\ \A c \in DOMAIN typeProperties :
          MapHas(typeProperties', c) /\ typeProperties'[c] = typeProperties[c]
     /\ \A c \in (DOMAIN typeProperties') \ (DOMAIN typeProperties) :
          /\ NewSucceeded
          /\ last'.key = c
          /\ typeProperties'[c] = PropertyNames(RawOf(last'.ref))
     /\ NewSucceeded => MapHas(typeProperties', last'.key)]_vars

\* The record of Test is the empty set of its first instance, and New has
\* just returned a Test holding _a and _b.
C17_Witness ==
  /\ last.op = "New"
  /\ last.threw = "none"
  /\ mode = "defend"
  /\ MapHas(typeProperties, "Test")
  /\ typeProperties["Test"] = {}
  /\ PropertyNames(RawOf(last.ref)) = {"_a", "_b"}
  /\ Len(last.reports) = 1

\* ------------------------------------------------------------------ C18
\* C18: when New returns normally an instance that was wrapped, because its
\* construction started in defend mode, the Construction Session of the
\* instance is gone from both maps, whatever the constructor did.
C18_SessionClosed ==
  (last.op = "New" /\ last.threw = "none" /\ Wrapped(RawOf(last.ref))) =>
     /\ ~MapHas(ctorObjectToProxy, RawOf(last.ref))
     /\ ~MapHas(ctorProxyToObject, -RawOf(last.ref))

\* ------------------------------------------------------------------ C19
\* The constructor of wrapped instance i is running and the session of i
\* is gone: while constructors run, only the catch clause of a failing New
\* clears sessions.
CutOff(i) == Wrapped(i) /\ OnStack(i) /\ ~InSession(i)
\* C19: after a New call has failed and its error has been caught, a write
\* that the constructor of an instance still under construction performs
\* on it is applied and reports nothing, a write of a new name included.
\* (Released instances and symbols are left aside.)
C19_ChecksOff ==
  [][\A p \in Wrappers, k \in Keys, v \in Values :
       LET t == TargetOf(p)
       IN (/\ WriteStep(p, k, v)
           /\ CutOff(t)
           /\ ~IsReleased(t)
           /\ ~IsSymbolKey(k)
           /\ v.kind # "symbol") => Applied(t, k, v)]_vars

\* ------------------------------------------------------------------ C20
\* C20: in every state the two session maps are inverses of each other and
\* so of the same size, and every wrapper in a session resolves to the same
\* raw instance through proxyToObject.
C20_SessionMapsInverse ==
  /\ \A r \in DOMAIN ctorObjectToProxy :
        /\ MapHas(ctorProxyToObject, ctorObjectToProxy[r])
        /\ ctorProxyToObject[ctorObjectToProxy[r]] = r
  /\ \A p \in DOMAIN ctorProxyToObject :
        /\ MapHas(ctorObjectToProxy, ctorProxyToObject[p])
        /\ ctorObjectToProxy[ctorProxyToObject[p]] = p
        /\ MapHas(proxyToObject, p)
        /\ proxyToObject[p] = ctorProxyToObject[p]
  /\ MapSize(ctorObjectToProxy) = MapSize(ctorProxyToObject)

\* New has just returned one of two instances whose sessions were open:
\* the session of the other one is still there, in both maps.
C20_Witness ==
  /\ last.op = "New"
  /\ last.threw = "none"
  /\ mode = "defend"
  /\ MapSize(ctorObjectToProxy) = 1
  /\ MapSize(ctorProxyToObject) = 1
  /\ ~MapHas(ctorObjectToProxy, RawOf(last.ref))

\* A construction session is open: a session map holds an entry.
SessionOpen ==
  MapSize(ctorObjectToProxy) > 0 \/ MapSize(ctorProxyToObject) > 0
\* Exactly one timer check is scheduled.
OneCheckPending == checkTimerId # -1 /\ timers = 1
\* C21: whenever a construction session is open exactly one timer check is
\* pending, never more than one is scheduled at a time, and a timer check
\* that has run leaves both session maps empty and no check pending.
C21_IdleCheck ==
  /\ SessionOpen => OneCheckPending
  /\ timers <= 1
  /\ last.op = "check" => ~SessionOpen /\ checkTimerId = -1 /\ timers = 0

====
